---- MODULE Spec2Model ----
(***************************************************************************)
(* Model of cx.js, the Client Extension Extractor: one invocation of the   *)
(* command line tool, from argument checking to process exit.              *)
(*                                                                         *)
(* JavaScript strings that the code only concatenates (labels, urls,      *)
(* resource bodies, merged content) are TLA+ strings.  The visible name    *)
(* and the technical name, which slugify() rewrites character by           *)
(* character, are sequences of one-character strings.  JavaScript arrays   *)
(* are sequences, so the JavaScript index i is position i + 1.             *)
(*                                                                         *)
(* The page fetch, the resource fetches, the checkbox prompt and the       *)
(* input prompt are the environment: what they answer is chosen with \E.   *)
(* The prompts always answer and the file system and archive calls always  *)
(* succeed: their failures, which nothing would catch either, are left     *)
(* out.                                                                    *)
(*                                                                         *)
(* The file holds two scripts.  Spec is the script of lines 1-322          *)
(* (runOnce).  LegacySpec is the script of lines 323-530                   *)
(* (extractResources), an earlier version of the same tool: it requests    *)
(* the resources one after the other, ends every entry with a blank line,  *)
(* always archives, and exits with status 1 when the page fetch fails.     *)
(*                                                                         *)
(* An error thrown inside runOnce is not caught anywhere: the promise of   *)
(* the entry point rejects and Node (15 and later, which the ES module     *)
(* dependencies require) ends the process with status 1.                   *)
(***************************************************************************)
EXTENDS Integers, Sequences, FiniteSets, TLC

\* Longest page, in elements, that the page fetch may answer.
MaxElems == 2

\* Longest visible name, in characters, that SlugSpec feeds to slugify.
MaxNameLen == 3

----------------------------------------------------------------------------
(* Strings as character sequences                                          *)

UpperLetters ==
    << "A", "B", "C", "D", "E", "F", "G", "H", "I", "J", "K", "L", "M",
       "N", "O", "P", "Q", "R", "S", "T", "U", "V", "W", "X", "Y", "Z" >>

LowerLetters ==
    << "a", "b", "c", "d", "e", "f", "g", "h", "i", "j", "k", "l", "m",
       "n", "o", "p", "q", "r", "s", "t", "u", "v", "w", "x", "y", "z" >>

Digits == { "0", "1", "2", "3", "4", "5", "6", "7", "8", "9" }

\* The characters the regular expression class \s matches (those in use).
Whitespace == { " ", "\t", "\n" }

Range(s) == { s[i] : i \in DOMAIN s }

\* String.prototype.toLowerCase, one character.
ToLowerChar(c) ==
    IF \E i \in DOMAIN UpperLetters : UpperLetters[i] = c
    THEN LowerLetters[CHOOSE i \in DOMAIN UpperLetters : UpperLetters[i] = c]
    ELSE c

\* The string a character sequence spells.
RECURSIVE Str(_)
Str(chars) == IF chars = << >> THEN "" ELSE Head(chars) \o Str(Tail(chars))

\* name.toLowerCase()
ToLowerCase(chars) == [ i \in DOMAIN chars |-> ToLowerChar(chars[i]) ]

\* .replace(/\s+/g, '-'): every maximal run of whitespace becomes one hyphen.
RECURSIVE ReplaceWhitespaceRuns(_)
ReplaceWhitespaceRuns(chars) ==
    IF chars = << >> THEN << >>
    ELSE IF Head(chars) \in Whitespace
         THEN IF Len(chars) > 1 /\ chars[2] \in Whitespace
              THEN ReplaceWhitespaceRuns(Tail(chars))
              ELSE << "-" >> \o ReplaceWhitespaceRuns(Tail(chars))
         ELSE << Head(chars) >> \o ReplaceWhitespaceRuns(Tail(chars))

\* .replace(/[^a-z0-9\-]/g, ''): the characters outside the class are dropped.
StripOutsideClass(chars) ==
    SelectSeq(chars, LAMBDA c : c \in Range(LowerLetters) \cup Digits \cup { "-" })

\* The values minimist gives args.name: undefined when the option is absent,
\* a string, a number (--name 123) or true (a bare --name).
Undefined == [ type |-> "undefined" ]

StringValue(chars) == [ type |-> "string", chars |-> chars ]

NumberValue(n) == [ type |-> "number", value |-> n ]

BooleanValue(b) == [ type |-> "boolean", bool |-> b ]

\* !visibleName is false: the value is truthy.
Truthy(v) ==
    \/ v.type = "string" /\ v.chars # << >>
    \/ v.type = "number" /\ v.value # 0
    \/ v.type = "boolean" /\ v.bool

\* name.toLowerCase is not a function: slugify throws a TypeError for a
\* name that is no string.
SlugifyThrows(name) == name.type # "string"

\* A slugify that strips before it collapses whitespace.
slugifyStripFirst(name, suffix) ==
    ReplaceWhitespaceRuns(StripOutsideClass(ToLowerCase(name)))
        \o << "-" >> \o suffix

\* slugify(name, suffix), cx.js lines 79-86.
slugify(name, suffix) ==
    StripOutsideClass(ReplaceWhitespaceRuns(ToLowerCase(name)))
        \o << "-" >> \o suffix

\* The validate callback of the visible-name prompt: /^[a-zA-Z0-9\s\-]+$/.
ValidName(val) ==
    /\ Len(val) > 0
    /\ \A i \in DOMAIN val :
          val[i] \in Range(UpperLetters) \cup Range(LowerLetters)
                     \cup Digits \cup Whitespace \cup { "-" }

----------------------------------------------------------------------------
(* Configuration                                                           *)

\* The page url of the invocation; every href and src is resolved against it.
PageUrl == "https://example.com/"

\* path.join: a path is the sequence of its segments.
OUTPUT_DIR == << "output" >>

TEMP_DIR == OUTPUT_DIR \o << "temp" >>

ASSETS_DIR == TEMP_DIR \o << "assets" >>

YamlName == "client-extension.yaml"

Classes == { "css", "js" }

\* The mode as the character sequence that slugify appends.
ModeChars(currentMode) ==
    IF currentMode = "css" THEN << "c", "s", "s" >> ELSE << "j", "s" >>

ScriptElementAttributes ==
    ("async" :> TRUE) @@ ("data-attribute" :> "value")
        @@ ("data-senna-track" :> "permanent") @@ ("fetchpriority" :> "low")

MODES ==
    [ css |-> [ fileName |-> "global.css", yamlType |-> "globalCSS" ],
      js  |-> [ fileName |-> "global.js", yamlType |-> "globalJS",
                scriptElementAttributes |-> ScriptElementAttributes ] ]

----------------------------------------------------------------------------
(* parseResources                                                          *)

DecimalDigits == << "0", "1", "2", "3", "4", "5", "6", "7", "8", "9" >>

\* Number to decimal string: i.toString() and `${inlineCounter}`.
RECURSIVE NumStr(_)
NumStr(n) ==
    IF n < 10 THEN DecimalDigits[n + 1]
    ELSE NumStr(n \div 10) \o DecimalDigits[(n % 10) + 1]

\* parseInt(s, 10) of a string that i.toString() produced.
ParseInt(s) == CHOOSE n \in 0 .. MaxElems : NumStr(n) = s

\* An absolute reference that new URL() rejects (its host is not closed).
InvalidRef == "http://["

\* new URL(ref, baseUrl) throws a TypeError (Invalid URL).
UrlThrows(ref, baseUrl) == ref = InvalidRef

\* new URL(ref, baseUrl).href for a relative file name and a base url that
\* ends in a slash.
ResolveUrl(ref, baseUrl) == baseUrl \o ref

\* !content?.trim(): trimming leaves nothing of the text (of the inner texts
\* that occur in Elements, the empty and the whitespace-only ones).
IsBlank(text) == text \in { "", " ", "\n" }

\* An element of the page: its tag, the value of its href (link) or src
\* (script) attribute, "" when it has none, and its inner text.  Every link
\* element is a rel="stylesheet" one.
Elements ==
    { [ tag |-> "link",   ref |-> "a.css",    text |-> "" ],
      [ tag |-> "link",   ref |-> "",         text |-> "" ],
      [ tag |-> "link",   ref |-> InvalidRef, text |-> "" ],
      [ tag |-> "style",  ref |-> "",         text |-> "p{}" ],
      [ tag |-> "script", ref |-> "a.js",     text |-> "" ],
      [ tag |-> "script", ref |-> InvalidRef, text |-> "" ],
      [ tag |-> "script", ref |-> "",         text |-> " " ] }

\* The pages the page fetch may answer, as the sequence of their elements.
Pages == UNION { [ 1 .. n -> Elements ] : n \in 0 .. MaxElems }

External(full) == [ type |-> "external", label |-> full, url |-> full ]

Inline(label, content) ==
    [ type |-> "inline", label |-> label, content |-> content ]

\* The .each callback of the css branch, lines 103-117, from element k on.
RECURSIVE ParseCss(_, _, _, _)
ParseCss(html, baseUrl, k, inlineCounter) ==
    IF k > Len(html) THEN << >>
    ELSE LET el == html[k] IN
         IF el.tag = "link"
         THEN IF el.ref # ""
              THEN << External(ResolveUrl(el.ref, baseUrl)) >>
                       \o ParseCss(html, baseUrl, k + 1, inlineCounter)
              ELSE ParseCss(html, baseUrl, k + 1, inlineCounter)
         ELSE IF el.tag = "style"
         THEN << Inline("<style> inline #" \o NumStr(inlineCounter), el.text) >>
                  \o ParseCss(html, baseUrl, k + 1, inlineCounter + 1)
         ELSE ParseCss(html, baseUrl, k + 1, inlineCounter)

\* The .each callback of the js branch, lines 119-134, from element k on.
RECURSIVE ParseJs(_, _, _, _)
ParseJs(html, baseUrl, k, inlineCounter) ==
    IF k > Len(html) THEN << >>
    ELSE LET el == html[k] IN
         IF el.tag # "script"
         THEN ParseJs(html, baseUrl, k + 1, inlineCounter)
         ELSE IF el.ref # ""
         THEN << External(ResolveUrl(el.ref, baseUrl)) >>
                  \o ParseJs(html, baseUrl, k + 1, inlineCounter)
         ELSE IF ~IsBlank(el.text)
         THEN << Inline("<script> inline #" \o NumStr(inlineCounter), el.text) >>
                  \o ParseJs(html, baseUrl, k + 1, inlineCounter + 1)
         ELSE ParseJs(html, baseUrl, k + 1, inlineCounter)

\* parseResources throws: new URL() rejects the href of a link element
\* (css, line 107) or the src of a script element (js, line 122).
parseResourcesThrows(html, baseUrl, currentMode) ==
    \E k \in DOMAIN html :
        /\ html[k].tag = (IF currentMode = "css" THEN "link" ELSE "script")
        /\ html[k].ref # ""
        /\ UrlThrows(html[k].ref, baseUrl)

\* What parseResources returns when it does not throw.
parseResources(html, baseUrl, currentMode) ==
    IF currentMode = "css"
    THEN ParseCss(html, baseUrl, 1, 1)
    ELSE ParseJs(html, baseUrl, 1, 1)

----------------------------------------------------------------------------
(* promptSelection                                                         *)

\* The choices handed to checkbox(), lines 152-156.
CheckboxChoices(resources) ==
    [ i \in DOMAIN resources |->
        [ name |-> resources[i].label, value |-> NumStr(i - 1), checked |-> TRUE ] ]

\* What checkbox() may answer: the values of any of the offered choices,
\* each at most once, in any order.
CheckboxAnswers(choices) ==
    LET values == { choices[i].value : i \in DOMAIN choices } IN
    { a \in UNION { [ 1 .. n -> values ] : n \in 0 .. Len(choices) } :
        \A i, j \in DOMAIN a : i # j => a[i] # a[j] }

\* choices.map((i) => resources[parseInt(i, 10)]), line 168.
SelectedFrom(resources, answer) ==
    [ k \in DOMAIN answer |-> resources[ParseInt(answer[k]) + 1] ]

----------------------------------------------------------------------------
(* downloadResources                                                       *)

\* The body the server answers for a url (r.data).
ResponseData(resourceUrl) == "body(" \o resourceUrl \o ")"

\* What the async callback of resources.map returns for one resource,
\* lines 173-193; ok tells whether axios.get succeeded.
MapperResult(res, ok) ==
    IF res.type = "external"
    THEN IF ok
         THEN "/* " \o res.url \o " */\n" \o ResponseData(res.url)
         ELSE ""
    ELSE "/* " \o res.label \o " */\n" \o res.content

\* A Promise.all that lists the values in the order the promises settled.
PromiseAllBySettlement(n, settledLog) ==
    [ k \in 1 .. n |-> settledLog[k].value ]

\* Promise.all: the value of the i-th promise is the i-th result, whatever
\* the order in which the promises settled.
PromiseAll(n, settledLog) ==
    [ i \in 1 .. n |->
        settledLog[CHOOSE k \in DOMAIN settledLog : settledLog[k].idx = i].value ]

\* Array.prototype.join
RECURSIVE Join(_, _)
Join(strings, sep) ==
    IF strings = << >> THEN ""
    ELSE IF Len(strings) = 1 THEN strings[1]
    ELSE strings[1] \o sep \o Join(Tail(strings), sep)

----------------------------------------------------------------------------
(* generateYaml                                                            *)

\* yaml.stringify: the text is represented by the document it encodes.
YamlStringify(doc) == [ yaml |-> doc ]

generateYaml(technicalName, visibleName, currentMode, fileName) ==
    LET entry == [ name |-> Str(visibleName),
                   type |-> MODES[currentMode].yamlType,
                   url  |-> fileName ]
        full  == IF currentMode = "js"
                 THEN [ name |-> entry.name, type |-> entry.type, url |-> entry.url,
                        scriptElementAttributes |-> MODES.js.scriptElementAttributes ]
                 ELSE entry
        base  == ("assemble" :> << [ from |-> "assets", into |-> "static" ] >>)
                     @@ (Str(technicalName) :> full)
    IN  YamlStringify(base)

----------------------------------------------------------------------------
(* The file system and saveFiles                                           *)

Dir == [ kind |-> "dir" ]

File(data) == [ kind |-> "file", data |-> data ]

IsUnder(p, dir) == Len(p) >= Len(dir) /\ SubSeq(p, 1, Len(dir)) = dir

\* fs.mkdirSync(dir, {recursive: true})
MkdirSync(f, dir) ==
    LET made == { SubSeq(dir, 1, n) : n \in 1 .. Len(dir) } IN
    [ p \in DOMAIN f \cup made |-> IF p \in DOMAIN f THEN f[p] ELSE Dir ]

\* fs.writeFileSync(path, data, 'utf8')
WriteFileSync(f, p, data) ==
    [ q \in DOMAIN f \cup { p } |-> IF q = p THEN File(data) ELSE f[q] ]

\* An rmSync that removes nothing.
RmSyncNothing(f, dir) == f

\* fs.rmSync(dir, {recursive: true, force: true})
RmSync(f, dir) ==
    [ p \in { q \in DOMAIN f : ~IsUnder(q, dir) } |-> f[p] ]

\* zip.addLocalFile(localPath, zipPath): the entry is the file's base name
\* under zipPath, its data what the file holds on disk.
AddLocalFile(zip, f, localPath, zipPath) ==
    LET entry == zipPath \o << localPath[Len(localPath)] >> IN
    [ e \in DOMAIN zip \cup { entry } |->
        IF e = entry THEN f[localPath].data ELSE zip[e] ]

\* new AdmZip(): an archive without entries.
EmptyZip == [ e \in { } |-> "" ]

ZipPath(technicalName) == OUTPUT_DIR \o << Str(technicalName) \o ".zip" >>

\* A saveFiles that archives and cleans up whatever the flag says.
saveFilesAlwaysZip(f, fileName, content, yamlContent, technicalName, noZipFlag) ==
    LET filePath == ASSETS_DIR \o << fileName >>
        yamlPath == TEMP_DIR \o << YamlName >>
        f1 == MkdirSync(f, ASSETS_DIR)
        f2 == WriteFileSync(f1, filePath, content)
        f3 == WriteFileSync(f2, yamlPath, yamlContent)
        zip1 == AddLocalFile(EmptyZip, f3, filePath, << "assets" >>)
        zip2 == AddLocalFile(zip1, f3, yamlPath, << >>)
    IN  RmSync(WriteFileSync(f3, ZipPath(technicalName), zip2), TEMP_DIR)

\* saveFiles, lines 217-246: the file system it leaves.
saveFiles(f, fileName, content, yamlContent, technicalName, noZipFlag) ==
    LET filePath == ASSETS_DIR \o << fileName >>
        yamlPath == TEMP_DIR \o << YamlName >>
        f1 == MkdirSync(f, ASSETS_DIR)
        f2 == WriteFileSync(f1, filePath, content)
        f3 == WriteFileSync(f2, yamlPath, yamlContent)
        zip1 == AddLocalFile(EmptyZip, f3, filePath, << "assets" >>)
        zip2 == AddLocalFile(zip1, f3, yamlPath, << >>)
    IN  IF ~noZipFlag
        THEN RmSync(WriteFileSync(f3, ZipPath(technicalName), zip2), TEMP_DIR)
        ELSE f3

----------------------------------------------------------------------------
(* The invocation                                                          *)

VARIABLES
    url,            \* args._[0]; "" when the positional argument is missing
    mode,           \* args.mode; "" when absent
    sharedName,     \* args.name, a JavaScript value
    includeAll,     \* !!args.all
    noZip,          \* !!(args['no-zip'] || args.noZip)
    pc,             \* where the process stands
    queue,          \* the runOnce calls the entry point still has to make
    cur,            \* currentMode of the runOnce call in progress (or last made)
    found,          \* runOnce: what parseResources returned
    selected,       \* runOnce: what promptSelection returned
    visibleName,    \* runOnce: the visible name, as characters
    technicalName,  \* runOnce: slugify(visibleName, currentMode), as characters
    pending,        \* downloadResources: indices whose axios.get has not settled
                    \* (extractResources: indices its for loop has yet to reach)
    settledLog,     \* downloadResources: the settled callbacks, in settling order
    results,        \* downloadResources: what Promise.all resolved to
    combined,       \* runOnce: the merged content
    yamlContent,    \* runOnce: the manifest text
    fs,             \* the file system below the script's directory
    exitCode,       \* the exit status, once pc = "exited"
    svcCalls,       \* history: checkbox() calls of the current run
    nameAsked,      \* history: whether the current run called input()
    fetchLog,       \* history: the resource urls the current run requested
    outOfOrder,     \* history: whether the requests settled out of array order
    fsAtRunStart,   \* history: fs when the current run began
    fsAtStart,      \* history: fs when the process began
    outcome         \* history: how the run of each class ended

args == << url, mode, sharedName, includeAll, noZip >>

runLocals ==
    << found, selected, visibleName, technicalName, pending, settledLog,
       results, combined, yamlContent, svcCalls, nameAsked, fetchLog,
       outOfOrder >>

vars == << args, pc, queue, cur, runLocals, fs, exitCode, fsAtRunStart,
           fsAtStart, outcome >>

\* "My Cool Site!"
MyCoolSite ==
    << "M", "y", " ", "C", "o", "o", "l", " ", "S", "i", "t", "e", "!" >>

\* The values of args.name: absent, a name (which nothing validates), a
\* number and true.
SharedNames ==
    { Undefined, StringValue(MyCoolSite), NumberValue(123), BooleanValue(TRUE) }

\* What the operator may type at the visible-name prompt.
TypedNames == { << "S", "h", "o", "p" >>, << "a", "!" >> }

\* The visible names a run may end up with, as characters.
VisibleNames ==
    { v.chars : v \in { w \in SharedNames : w.type = "string" } } \cup TypedNames

\* The values of --mode: absent, css, js, and one that is none of them.
ModeValues == { "", "css", "js", "scss" }

EmptyFs == [ p \in { } |-> Dir ]

NoYaml == YamlStringify(<< >>)

\* The output directory an earlier invocation with --no-zip left behind,
\* together with an archive of the name this invocation may write.
LeftoverFs ==
    WriteFileSync(
        saveFiles(EmptyFs, "global.css", "/* earlier */",
                  generateYaml(<< "o", "l", "d" >>, << "O", "l", "d" >>, "css",
                               "global.css"),
                  << "o", "l", "d" >>, TRUE),
        ZipPath(slugify(MyCoolSite, ModeChars("css"))),
        AddLocalFile(EmptyZip,
                     WriteFileSync(EmptyFs, << "earlier.css" >>, "/* earlier */"),
                     << "earlier.css" >>, << "assets" >>))

InitialFs == { EmptyFs, LeftoverFs }

NotRun == "notRun"

RunReset ==
    /\ found' = << >>
    /\ selected' = << >>
    /\ visibleName' = << >>
    /\ technicalName' = << >>
    /\ pending' = { }
    /\ settledLog' = << >>
    /\ results' = << >>
    /\ combined' = ""
    /\ yamlContent' = NoYaml
    /\ svcCalls' = 0
    /\ nameAsked' = FALSE
    /\ fetchLog' = << >>
    /\ outOfOrder' = FALSE

Init ==
    /\ url \in { "", PageUrl }
    /\ mode \in ModeValues
    /\ sharedName \in SharedNames
    /\ includeAll \in BOOLEAN
    /\ noZip \in BOOLEAN
    /\ fs \in InitialFs
    /\ fsAtStart = fs
    /\ fsAtRunStart = fs
    /\ pc = "args"
    /\ queue = << >>
    /\ cur = "css"
    /\ found = << >>
    /\ selected = << >>
    /\ visibleName = << >>
    /\ technicalName = << >>
    /\ pending = { }
    /\ settledLog = << >>
    /\ results = << >>
    /\ combined = ""
    /\ yamlContent = NoYaml
    /\ svcCalls = 0
    /\ nameAsked = FALSE
    /\ fetchLog = << >>
    /\ outOfOrder = FALSE
    /\ exitCode = 0
    /\ outcome = [ c \in Classes |-> NotRun ]

\* process.exit(code), and the exit on an uncaught rejection (code 1).
Exit(code) ==
    /\ pc' = "exited"
    /\ exitCode' = code

\* runOnce returns: the entry point goes on.
Return(how) ==
    /\ pc' = "main"
    /\ outcome' = [ outcome EXCEPT ![cur] = how ]
    /\ UNCHANGED exitCode

\* Lines 46-53.
CheckUrl ==
    /\ pc = "args"
    /\ IF url = ""
       THEN Exit(1)
       ELSE pc' = "entry" /\ UNCHANGED exitCode
    /\ UNCHANGED << args, queue, cur, runLocals, fs, fsAtRunStart, fsAtStart,
                    outcome >>

\* The runOnce calls of the entry point, lines 310-314, in order.
RunsOf(m) ==
    IF m = "" THEN << "css", "js" >>
    ELSE IF m = "css" \/ m = "js" THEN << m >>
    ELSE << >>

\* Lines 309-320: the branch the entry point takes.
EntryPoint ==
    /\ pc = "entry"
    /\ IF mode = "" \/ mode = "css" \/ mode = "js"
       THEN /\ queue' = RunsOf(mode)
            /\ pc' = "main"
            /\ UNCHANGED exitCode
       ELSE /\ Exit(1)
            /\ UNCHANGED queue
    /\ UNCHANGED << args, cur, runLocals, fs, fsAtRunStart, fsAtStart, outcome >>

\* The entry point calls runOnce for the next class.
StartRun ==
    /\ pc = "main"
    /\ queue # << >>
    /\ cur' = Head(queue)
    /\ queue' = Tail(queue)
    /\ RunReset
    /\ fsAtRunStart' = fs
    /\ pc' = "fetchPage"
    /\ UNCHANGED << args, fs, exitCode, fsAtStart, outcome >>

\* The entry point has made its last call: the process ends normally.
Finish ==
    /\ pc = "main"
    /\ queue = << >>
    /\ Exit(0)
    /\ UNCHANGED << args, queue, cur, runLocals, fs, fsAtRunStart, fsAtStart,
                    outcome >>

\* fetchPage, the request failing: it throws, and nothing catches.
FetchPageFail ==
    /\ pc = "fetchPage"
    /\ Exit(1)
    /\ outcome' = [ outcome EXCEPT ![cur] = "fetchError" ]
    /\ UNCHANGED << args, queue, cur, runLocals, fs, fsAtRunStart, fsAtStart >>

\* Line 259: found.length === 0.
NothingFound(resources) == Len(resources) = 0

\* runOnce, lines 256-266: fetchPage (lines 88-95) answers with the page
\* html; parseResources throws, and nothing catches, or lists the resources
\* of the page, and runOnce returns when there are none.
FetchPageOk(html) ==
    /\ pc = "fetchPage"
    /\ IF parseResourcesThrows(html, url, cur)
       THEN /\ Exit(1)
            /\ outcome' = [ outcome EXCEPT ![cur] = "parseError" ]
            /\ UNCHANGED found
       ELSE /\ found' = parseResources(html, url, cur)
            /\ IF NothingFound(found')
               THEN Return("noneFound")
               ELSE pc' = "select" /\ UNCHANGED << outcome, exitCode >>
    /\ UNCHANGED << args, queue, cur, selected, visibleName, technicalName,
                    pending, settledLog, results, combined, yamlContent,
                    svcCalls, nameAsked, fetchLog, outOfOrder, fs, fsAtRunStart, fsAtStart >>

\* A runOnce that goes on with an empty selection.
NothingSelectedIgnored(resources) == FALSE

\* Line 269: selected.length === 0.
NothingSelected(resources) == Len(resources) = 0

\* What follows promptSelection in runOnce, line 269.
AfterSelection ==
    IF NothingSelected(selected')
    THEN Return("noneSelected")
    ELSE pc' = "name" /\ UNCHANGED << outcome, exitCode >>

\* promptSelection(found, cur, includeAll) with the flag set, lines 141-148:
\* it returns the list it was given.
PromptSelectionAll ==
    /\ includeAll
    /\ selected' = found
    /\ UNCHANGED svcCalls

\* promptSelection(found, cur, includeAll) with the flag unset, lines
\* 150-168: checkbox() is called with one choice per resource, and the
\* resources of the answer are returned.
PromptSelectionAsk(answer) ==
    /\ ~includeAll
    /\ answer \in CheckboxAnswers(CheckboxChoices(found))
    /\ svcCalls' = svcCalls + 1
    /\ selected' = IF Len(answer) = 0 THEN << >> ELSE SelectedFrom(found, answer)

\* runOnce, lines 268-269, with --all.
SelectAll ==
    /\ pc = "select"
    /\ PromptSelectionAll
    /\ AfterSelection
    /\ UNCHANGED << args, queue, cur, found, visibleName, technicalName,
                    pending, settledLog, results, combined, yamlContent,
                    nameAsked, fetchLog, outOfOrder, fs, fsAtRunStart, fsAtStart >>

\* runOnce, lines 268-269, without --all: the operator answers the checkbox.
SelectSome(answer) ==
    /\ pc = "select"
    /\ PromptSelectionAsk(answer)
    /\ AfterSelection
    /\ UNCHANGED << args, queue, cur, found, visibleName, technicalName,
                    pending, settledLog, results, combined, yamlContent,
                    nameAsked, fetchLog, outOfOrder, fs, fsAtRunStart, fsAtStart >>

\* runOnce, lines 271-289, with a truthy --name: slugify throws on a name
\* that is no string, and nothing catches.
UseSharedName ==
    /\ pc = "name"
    /\ Truthy(sharedName)
    /\ IF SlugifyThrows(sharedName)
       THEN /\ Exit(1)
            /\ outcome' = [ outcome EXCEPT ![cur] = "nameError" ]
            /\ UNCHANGED << visibleName, technicalName >>
       ELSE /\ visibleName' = sharedName.chars
            /\ technicalName' = slugify(sharedName.chars, ModeChars(cur))
            /\ pc' = "resolve"
            /\ UNCHANGED << exitCode, outcome >>
    /\ UNCHANGED << args, queue, cur, found, selected, pending,
                    settledLog, results, combined, yamlContent, svcCalls,
                    nameAsked, fetchLog, outOfOrder, fs, fsAtRunStart, fsAtStart >>

\* runOnce, lines 271-289, without --name: the operator types val; input()
\* asks again until validate accepts.
AskName(val) ==
    /\ pc = "name"
    /\ ~Truthy(sharedName)
    /\ nameAsked' = TRUE
    /\ IF ValidName(val)
       THEN /\ visibleName' = val
            /\ technicalName' = slugify(val, ModeChars(cur))
            /\ pc' = "resolve"
       ELSE UNCHANGED << visibleName, technicalName, pc >>
    /\ UNCHANGED << args, queue, cur, found, selected, pending,
                    settledLog, results, combined, yamlContent, svcCalls,
                    fetchLog, outOfOrder, fs, exitCode, fsAtRunStart, fsAtStart, outcome >>

Indices(s) == [ i \in DOMAIN s |-> i ]

\* downloadResources, lines 172-193 up to the first await of each callback:
\* every external resource has its request sent, every inline callback has
\* returned.
IssueFetches ==
    /\ pc = "resolve"
    /\ LET ext == SelectSeq(Indices(selected),
                            LAMBDA i : selected[i].type = "external")
           inl == SelectSeq(Indices(selected),
                            LAMBDA i : selected[i].type # "external")
       IN  /\ fetchLog' = [ k \in DOMAIN ext |-> selected[ext[k]].url ]
           /\ pending' = Range(ext)
           /\ settledLog' =
                 [ k \in DOMAIN inl |->
                     [ idx |-> inl[k], ok |-> TRUE,
                       value |-> MapperResult(selected[inl[k]], TRUE) ] ]
    /\ pc' = "await"
    /\ UNCHANGED << args, queue, cur, found, selected, visibleName,
                    technicalName, results, combined, yamlContent, svcCalls,
                    nameAsked, outOfOrder, fs, exitCode, fsAtRunStart,
                    fsAtStart, outcome >>

\* A callback without the try/catch: the failure rejects Promise.all, which
\* rejects downloadResources and runOnce.
SettleFetchUncaught(i, ok) ==
    /\ pc = "await"
    /\ i \in pending
    /\ pending' = pending \ { i }
    /\ settledLog' = Append(settledLog,
                            [ idx |-> i, ok |-> ok,
                              value |-> MapperResult(selected[i], ok) ])
    /\ IF ok
       THEN UNCHANGED << pc, exitCode, outcome >>
       ELSE Exit(1) /\ outcome' = [ outcome EXCEPT ![cur] = "resourceError" ]
    /\ UNCHANGED << args, queue, cur, found, selected, visibleName,
                    technicalName, results, combined, yamlContent, svcCalls,
                    nameAsked, fetchLog, outOfOrder, fs, fsAtRunStart, fsAtStart >>

\* Lines 175-188: the axios.get of resource i settles, and its callback
\* returns the entry (ok) or the empty string (the catch).
SettleFetch(i, ok) ==
    /\ pc = "await"
    /\ i \in pending
    /\ pending' = pending \ { i }
    /\ settledLog' = Append(settledLog,
                            [ idx |-> i, ok |-> ok,
                              value |-> MapperResult(selected[i], ok) ])
    /\ UNCHANGED << args, pc, queue, cur, found, selected, visibleName,
                    technicalName, results, combined, yamlContent, svcCalls,
                    nameAsked, fetchLog, outOfOrder, fs, exitCode, fsAtRunStart, fsAtStart,
                    outcome >>

\* Whether some promise settled before one that precedes it in the array.
SettledOutOfOrder(settled) ==
    \E k, l \in DOMAIN settled : k < l /\ settled[k].idx > settled[l].idx

\* Lines 172 and 196: every callback has returned, Promise.all resolves and
\* downloadResources returns the joined results.
JoinResults ==
    /\ pc = "await"
    /\ pending = { }
    /\ results' = PromiseAll(Len(selected), settledLog)
    /\ combined' = Join(results', "\n\n")
    /\ outOfOrder' = SettledOutOfOrder(settledLog)
    /\ settledLog' = << >>
    /\ pc' = "package"
    /\ UNCHANGED << args, queue, cur, found, selected, visibleName,
                    technicalName, pending, yamlContent, svcCalls,
                    nameAsked, fetchLog, fs, exitCode, fsAtRunStart, fsAtStart,
                    outcome >>

\* runOnce, lines 298-305: generateYaml and saveFiles.
Package ==
    /\ pc = "package"
    /\ yamlContent' = generateYaml(technicalName, visibleName, cur,
                                   MODES[cur].fileName)
    /\ fs' = saveFiles(fs, MODES[cur].fileName, combined, yamlContent',
                       technicalName, noZip)
    /\ Return("packaged")
    /\ UNCHANGED << args, queue, cur, found, selected, visibleName,
                    technicalName, pending, settledLog, results, combined,
                    svcCalls, nameAsked, fetchLog, outOfOrder, fsAtRunStart, fsAtStart >>

Next ==
    \/ CheckUrl
    \/ EntryPoint
    \/ StartRun
    \/ Finish
    \/ FetchPageFail
    \/ \E html \in Pages : FetchPageOk(html)
    \/ SelectAll
    \/ \E answer \in CheckboxAnswers(CheckboxChoices(found)) : SelectSome(answer)
    \/ UseSharedName
    \/ \E val \in TypedNames : AskName(val)
    \/ IssueFetches
    \/ \E i \in pending, ok \in BOOLEAN : SettleFetch(i, ok)
    \/ JoinResults
    \/ Package

Spec == Init /\ [][Next]_vars

\* Requests settle, and the steps that wait for nothing are taken: the
\* transport layer ends every request, and the event loop runs every
\* continuation that is ready.
FairSpec ==
    /\ Spec
    /\ WF_vars(IssueFetches)
    /\ WF_vars(\E i \in pending, ok \in BOOLEAN : SettleFetch(i, ok))
    /\ WF_vars(JoinResults)
    /\ WF_vars(Package)

----------------------------------------------------------------------------
(* The script of lines 323-530: extractResources                           *)

\* Lines 339-355: the arguments and the paths are those of the first script
\* (args.all is read where it is used, --no-zip is never read).
ExtractInit == Init

\* Lines 343-348.
ExtractCheckUrl == CheckUrl

\* Lines 519-530: the branch the entry point takes.
ExtractEntryPoint == EntryPoint

\* The entry point calls extractResources for the next class.
ExtractStartRun == StartRun

\* The entry point has made its last call.
ExtractFinish == Finish

\* Lines 358-364: the page request fails, process.exit(1).
ExtractFetchPageFail ==
    /\ pc = "fetchPage"
    /\ Exit(1)
    /\ outcome' = [ outcome EXCEPT ![cur] = "fetchError" ]
    /\ UNCHANGED << args, queue, cur, runLocals, fs, fsAtRunStart, fsAtStart >>

\* Lines 358-404: the page request answers html, the resources are listed as
\* parseResources lists them (new URL() throwing, uncaught, as there), and
\* extractResources returns when there are none.
ExtractFetchPageOk(html) == FetchPageOk(html)

\* Lines 406-411, args.all set.
ExtractSelectAll ==
    /\ pc = "select"
    /\ includeAll
    /\ selected' = found
    /\ pc' = "name"
    /\ UNCHANGED << args, queue, cur, found, visibleName, technicalName,
                    pending, settledLog, results, combined, yamlContent,
                    svcCalls, nameAsked, fetchLog, outOfOrder, fs, exitCode,
                    fsAtRunStart, fsAtStart, outcome >>

\* Lines 412-426, args.all unset: the operator answers the checkbox, and
\* extractResources returns when nothing was chosen.
ExtractSelectSome(answer) ==
    /\ pc = "select"
    /\ ~includeAll
    /\ answer \in CheckboxAnswers(CheckboxChoices(found))
    /\ svcCalls' = svcCalls + 1
    /\ IF Len(answer) = 0
       THEN /\ UNCHANGED selected
            /\ Return("noneSelected")
       ELSE /\ selected' = SelectedFrom(found, answer)
            /\ pc' = "name"
            /\ UNCHANGED << outcome, exitCode >>
    /\ UNCHANGED << args, queue, cur, found, visibleName, technicalName,
                    pending, settledLog, results, combined, yamlContent,
                    nameAsked, fetchLog, outOfOrder, fs, fsAtRunStart,
                    fsAtStart >>

\* Lines 428-450, with a truthy --name: the slug is computed as slugify
\* computes it, and toLowerCase throws on a name that is no string.
ExtractUseSharedName == UseSharedName

\* Lines 428-450, without --name.
ExtractAskName(val) == AskName(val)

\* Lines 459-460: let combined = '', and the for loop over selected begins.
ExtractBeginLoop ==
    /\ pc = "resolve"
    /\ combined' = ""
    /\ pending' = DOMAIN selected
    /\ pc' = "loop"
    /\ UNCHANGED << args, queue, cur, found, selected, visibleName,
                    technicalName, settledLog, results, yamlContent, svcCalls,
                    nameAsked, fetchLog, outOfOrder, fs, exitCode,
                    fsAtRunStart, fsAtStart, outcome >>

\* What one iteration appends to combined, lines 462-477: the entry and a
\* blank line, or nothing for an external resource whose request failed.
ExtractEntry(res, ok) ==
    IF res.type = "external"
    THEN IF ok
         THEN "/* " \o res.url \o " */\n" \o ResponseData(res.url) \o "\n\n"
         ELSE ""
    ELSE "/* " \o res.label \o " */\n" \o res.content \o "\n\n"

\* Lines 461-479, one iteration of the for loop: the next resource is
\* requested and awaited (ok tells whether axios.get succeeded) before the
\* loop goes on.
ExtractLoopStep(ok) ==
    /\ pc = "loop"
    /\ pending # { }
    /\ LET i == CHOOSE j \in pending : \A k \in pending : j <= k IN
       /\ selected[i].type # "external" => ok
       /\ combined' = combined \o ExtractEntry(selected[i], ok)
       /\ fetchLog' = IF selected[i].type = "external"
                      THEN Append(fetchLog, selected[i].url)
                      ELSE fetchLog
       /\ pending' = pending \ { i }
    /\ UNCHANGED << args, pc, queue, cur, found, selected, visibleName,
                    technicalName, settledLog, results, yamlContent, svcCalls,
                    nameAsked, outOfOrder, fs, exitCode, fsAtRunStart,
                    fsAtStart, outcome >>

\* Lines 481-516: the content file and the manifest are written, archived,
\* and the staging tree is removed, whatever --no-zip says.
ExtractPackage ==
    /\ pc = "loop"
    /\ pending = { }
    /\ yamlContent' = generateYaml(technicalName, visibleName, cur,
                                   MODES[cur].fileName)
    /\ fs' = saveFiles(fs, MODES[cur].fileName, combined, yamlContent',
                       technicalName, FALSE)
    /\ Return("packaged")
    /\ UNCHANGED << args, queue, cur, found, selected, visibleName,
                    technicalName, pending, settledLog, results, combined,
                    svcCalls, nameAsked, fetchLog, outOfOrder, fsAtRunStart,
                    fsAtStart >>

ExtractNext ==
    \/ ExtractCheckUrl
    \/ ExtractEntryPoint
    \/ ExtractStartRun
    \/ ExtractFinish
    \/ ExtractFetchPageFail
    \/ \E html \in Pages : ExtractFetchPageOk(html)
    \/ ExtractSelectAll
    \/ \E answer \in CheckboxAnswers(CheckboxChoices(found)) :
          ExtractSelectSome(answer)
    \/ ExtractUseSharedName
    \/ \E val \in TypedNames : ExtractAskName(val)
    \/ ExtractBeginLoop
    \/ \E ok \in BOOLEAN : ExtractLoopStep(ok)
    \/ ExtractPackage

LegacySpec == ExtractInit /\ [][ExtractNext]_vars

----------------------------------------------------------------------------
(* slugify on its own                                                      *)

SlugAlphabet == { "A", "b", "7", " ", "\t", "-", "!" }

SlugNames ==
    UNION { [ 1 .. n -> SlugAlphabet ] : n \in 0 .. MaxNameLen } \cup { MyCoolSite }

SlugInit ==
    /\ url = PageUrl
    /\ mode = ""
    /\ sharedName \in { StringValue(n) : n \in SlugNames }
    /\ includeAll = FALSE
    /\ noZip = FALSE
    /\ fs = EmptyFs
    /\ fsAtStart = fs
    /\ fsAtRunStart = fs
    /\ pc = "slug"
    /\ queue = << >>
    /\ cur \in Classes
    /\ found = << >>
    /\ selected = << >>
    /\ visibleName = << >>
    /\ technicalName = << >>
    /\ pending = { }
    /\ settledLog = << >>
    /\ results = << >>
    /\ combined = ""
    /\ yamlContent = NoYaml
    /\ svcCalls = 0
    /\ nameAsked = FALSE
    /\ fetchLog = << >>
    /\ outOfOrder = FALSE
    /\ exitCode = 0
    /\ outcome = [ c \in Classes |-> NotRun ]

\* Line 288: const technicalName = slugify(visibleName, currentMode).
SlugStep ==
    /\ pc = "slug"
    /\ visibleName' = sharedName.chars
    /\ technicalName' = slugify(sharedName.chars, ModeChars(cur))
    /\ pc' = "slugged"
    /\ UNCHANGED << args, queue, cur, found, selected, pending, settledLog,
                    results, combined, yamlContent, svcCalls, nameAsked,
                    fetchLog, outOfOrder, fs, exitCode, fsAtRunStart,
                    fsAtStart, outcome >>

SlugSpec == SlugInit /\ [][SlugStep]_vars

----------------------------------------------------------------------------
(* promptSelection on its own                                              *)

\* The resources parseResources lists for some page.
Resources ==
    UNION { Range(parseResources(q[1], PageUrl, q[2])) :
              q \in { r \in Pages \X Classes :
                        ~parseResourcesThrows(r[1], PageUrl, r[2]) } }

\* The lists promptSelection may be given, the empty one among them.
ResourceLists == UNION { [ 1 .. n -> Resources ] : n \in 0 .. MaxElems }

GateInit ==
    /\ url = PageUrl
    /\ mode = ""
    /\ sharedName = Undefined
    /\ includeAll \in BOOLEAN
    /\ noZip = FALSE
    /\ fs = EmptyFs
    /\ fsAtStart = fs
    /\ fsAtRunStart = fs
    /\ pc = "gate"
    /\ queue = << >>
    /\ cur \in Classes
    /\ found \in ResourceLists
    /\ selected = << >>
    /\ visibleName = << >>
    /\ technicalName = << >>
    /\ pending = { }
    /\ settledLog = << >>
    /\ results = << >>
    /\ combined = ""
    /\ yamlContent = NoYaml
    /\ svcCalls = 0
    /\ nameAsked = FALSE
    /\ fetchLog = << >>
    /\ outOfOrder = FALSE
    /\ exitCode = 0
    /\ outcome = [ c \in Classes |-> NotRun ]

\* promptSelection(found, cur, true) returns.
GateAll ==
    /\ pc = "gate"
    /\ PromptSelectionAll
    /\ pc' = "gated"
    /\ UNCHANGED << args, queue, cur, found, visibleName, technicalName,
                    pending, settledLog, results, combined, yamlContent,
                    nameAsked, fetchLog, outOfOrder, fs, exitCode,
                    fsAtRunStart, fsAtStart, outcome >>

\* promptSelection(found, cur, false) returns, checkbox() having answered.
GateAsk(answer) ==
    /\ pc = "gate"
    /\ PromptSelectionAsk(answer)
    /\ pc' = "gated"
    /\ UNCHANGED << args, queue, cur, found, visibleName, technicalName,
                    pending, settledLog, results, combined, yamlContent,
                    nameAsked, fetchLog, outOfOrder, fs, exitCode,
                    fsAtRunStart, fsAtStart, outcome >>

GateNext ==
    \/ GateAll
    \/ \E answer \in CheckboxAnswers(CheckboxChoices(found)) : GateAsk(answer)

GateSpec == GateInit /\ [][GateNext]_vars

----------------------------------------------------------------------------
(* Properties                                                              *)

\* s is t with some of its elements left out.
IsSubsequence(s, t) ==
    \E f \in [ DOMAIN s -> DOMAIN t ] :
        /\ \A i, j \in DOMAIN s : i < j => f[i] < f[j]
        /\ \A i \in DOMAIN s : t[f[i]] = s[i]

\* The run of class cur has returned normally.
RunReturned ==
    /\ pc \in { "main", "exited" }
    /\ outcome[cur] \in { "noneFound", "noneSelected", "packaged" }

\* The run of class cur has gone through saveFiles.
RunPackaged ==
    /\ pc \in { "main", "exited" }
    /\ outcome[cur] = "packaged"

\* The archives: the files of the output directory outside the staging tree.
Archives(f) ==
    { p \in DOMAIN f : f[p].kind = "file" /\ ~IsUnder(p, TEMP_DIR) }

\* C1: once the operator has answered the checkbox, the selected references
\* are a subsequence of the discovered ones: they stand in discovery order,
\* whatever the order of the answer.
C1_SelectionIsSubsequence ==
    svcCalls > 0 => IsSubsequence(selected, found)

\* C2: once downloadResources has returned, there is one result per approved
\* reference, the i-th result is the entry of the i-th reference (its label
\* as header, then its body) or, for an external reference whose request
\* failed, the empty string, and the merged content is the results joined
\* in that order.
C2_ResultsInInputOrder ==
    (pc = "package" \/ RunPackaged) =>
        /\ Len(results) = Len(selected)
        /\ \A i \in DOMAIN selected :
              \/ selected[i].type = "external" /\ results[i] = ""
              \/ results[i] =
                    "/* " \o selected[i].label \o " */\n"
                        \o ( IF selected[i].type = "external"
                             THEN ResponseData(selected[i].url)
                             ELSE selected[i].content )
        /\ combined = Join(results, "\n\n")

\* C2 happens: two requests settled in the reverse of their order in the
\* array, one failing and one succeeding.
C2_Witness ==
    /\ pc = "package"
    /\ outOfOrder
    /\ Len(selected) = 2
    /\ \A i \in DOMAIN selected : selected[i].type = "external"
    /\ \E i, j \in DOMAIN results : results[i] = "" /\ results[j] # ""

\* C3: a run that waits for its requests leaves that stage only with every
\* request settled, and only to go on to packaging; packaging only ends in
\* the run returning with its artifact written; and a run that has reached
\* the resolve stage does get there.
C3_ResolveNeverAborts ==
    /\ [][ pc = "await" /\ pc' # "await" => pending = { } /\ pc' = "package" ]_vars
    /\ [][ pc = "package" /\ pc' # "package" =>
              pc' = "main" /\ outcome'[cur] = "packaged" ]_vars
    /\ (pc = "resolve") ~> (pc = "main" /\ outcome[cur] = "packaged")

\* C3 happens: a run whose two requests both failed has written its artifact.
C3_Witness ==
    /\ RunPackaged
    /\ Len(fetchLog) = 2
    /\ \A i \in DOMAIN results : results[i] = ""
    /\ ZipPath(technicalName) \in DOMAIN fs \/ TEMP_DIR \in DOMAIN fs

\* The merged content of the approved references whose request did not fail.
MergedWithoutFailed ==
    LET kept == SelectSeq(Indices(selected), LAMBDA i : results[i] # "") IN
    Join([ k \in DOMAIN kept |-> MapperResult(selected[kept[k]], TRUE) ], "\n\n")

\* C4: the merged content is the merged content of the approved list with
\* the references whose request failed removed.
C4_FailedContributesNothing ==
    (pc = "package" \/ RunPackaged) => combined = MergedWithoutFailed

\* The merged content extractResources builds of the approved references
\* that contributed to it, given the requests that were made and failed.
ExtractMergedOf(kept) ==
    Join([ k \in DOMAIN kept |-> ExtractEntry(kept[k], TRUE) ], "")

\* The statement of C4 on the script of lines 323-530: what extractResources
\* wrote is what it writes for some sublist of the approved list that holds
\* every inline reference and contains no header, body or separator beyond
\* those of that sublist.
Legacy_FailedContributesNothing ==
    RunPackaged =>
        \E keep \in SUBSET DOMAIN selected :
            /\ \A i \in DOMAIN selected : selected[i].type # "external" => i \in keep
            /\ combined =
                  ExtractMergedOf([ k \in 1 .. Cardinality(keep) |->
                      selected[SelectSeq(Indices(selected),
                                         LAMBDA i : i \in keep)[k]] ])

\* C5: the exit status is non-zero exactly when the url is missing or the
\* mode is none of css, js and absent; a failing page fetch, among others,
\* ends with status zero.
C5_ExitStatusAsStated ==
    pc = "exited" =>
        (exitCode # 0 <=> (url = "" \/ mode \notin { "", "css", "js" }))

\* C6: a run never goes past the selection with nothing selected; a run that
\* returned with nothing selected (nothing found included) requested no
\* resource, asked for no name and left the file system as it found it; and
\* when both classes were to run and the style run ended so, the script run
\* was made.
C6_EmptyRunLeavesNothing ==
    /\ pc \in { "name", "resolve", "await", "package" } => selected # << >>
    /\ (RunReturned /\ selected = << >>) =>
          /\ outcome[cur] \in { "noneFound", "noneSelected" }
          /\ fetchLog = << >>
          /\ ~nameAsked
          /\ visibleName = << >>
          /\ fs = fsAtRunStart
          /\ exitCode = 0
    /\ ( /\ pc = "exited"
         /\ url # ""
         /\ mode = ""
         /\ outcome["css"] \in { "noneFound", "noneSelected" } )
          => outcome["js"] # NotRun

\* C6 happens: the operator approved none of the style resources, and the
\* script run that followed packaged.
C6_Witness ==
    /\ pc = "exited"
    /\ outcome["css"] = "noneSelected"
    /\ outcome["js"] = "packaged"

C8_PackagerPostcondition ==
    RunPackaged =>
        LET fileName == MODES[cur].fileName
            filePath == ASSETS_DIR \o << fileName >>
            yamlPath == TEMP_DIR \o << YamlName >>
            zipPath  == ZipPath(technicalName)
        IN  IF ~noZip
            THEN /\ zipPath \in DOMAIN fs
                 /\ fs[zipPath].kind = "file"
                 /\ DOMAIN fs[zipPath].data =
                       { << "assets", fileName >>, << YamlName >> }
                 /\ fs[zipPath].data[<< "assets", fileName >>] = combined
                 /\ fs[zipPath].data[<< YamlName >>] = yamlContent
                 /\ \A p \in DOMAIN fs : ~IsUnder(p, TEMP_DIR)
            ELSE /\ { TEMP_DIR, ASSETS_DIR, filePath, yamlPath } \subseteq DOMAIN fs
                 /\ fs[TEMP_DIR] = Dir
                 /\ fs[ASSETS_DIR] = Dir
                 /\ fs[filePath] = File(combined)
                 /\ fs[yamlPath] = File(yamlContent)
                 /\ Archives(fs) = Archives(fsAtRunStart)
                 /\ \A p \in Archives(fs) : fs[p] = fsAtRunStart[p]

\* C8 happens: saveFiles archived in a directory whose staging tree held the
\* files of an earlier run.
C8_Witness ==
    /\ RunPackaged
    /\ ~noZip
    /\ TEMP_DIR \o << YamlName >> \in DOMAIN fsAtRunStart

\* The visible name for one character position of the stem: a hyphen for the
\* last character of a whitespace run, the lowercased character when that is
\* in [a-z0-9-], nothing otherwise.
SlugStem(name) ==
    LET keep(i) ==
            IF name[i] \in Whitespace
            THEN i = Len(name) \/ name[i + 1] \notin Whitespace
            ELSE ToLowerChar(name[i]) \in Range(LowerLetters) \cup Digits \cup { "-" }
        kept == SelectSeq(Indices(name), keep)
    IN  [ k \in DOMAIN kept |->
            IF name[kept[k]] \in Whitespace THEN "-" ELSE ToLowerChar(name[kept[k]]) ]

\* C9: the technical name is the visible name lowercased, each whitespace
\* run one hyphen, the characters outside [a-z0-9-] dropped, then -css or
\* -js; "My Cool Site!" gives my-cool-site-css for css; and the css and js
\* names of one visible name differ.
C9_TechnicalId ==
    pc = "slugged" =>
        /\ technicalName = SlugStem(sharedName.chars) \o << "-" >> \o ModeChars(cur)
        /\ (sharedName.chars = MyCoolSite /\ cur = "css")
              => Str(technicalName) = "my-cool-site-css"
        /\ slugify(sharedName.chars, ModeChars("css"))
              # slugify(sharedName.chars, ModeChars("js"))
        /\ ZipPath(slugify(sharedName.chars, ModeChars("css")))
              # ZipPath(slugify(sharedName.chars, ModeChars("js")))

\* C9 happens: slugify was applied to "My Cool Site!" for css.
C9_Witness ==
    /\ pc = "slugged"
    /\ sharedName = StringValue(MyCoolSite)
    /\ cur = "css"
    /\ Str(technicalName) = "my-cool-site-css"

\* C10: with mode absent the script run is made only once the style run has
\* returned; and with --no-zip, when both runs packaged, the archives are
\* those, unchanged, of before the invocation, the staging tree is on disk
\* with the script run's content and manifest, and its manifest is not the
\* manifest of a style run, whatever the visible name.
C10_NoZipBothModes ==
    /\ (mode = "" /\ cur = "js") => outcome["css"] # NotRun
    /\ (mode = "" /\ pc \notin { "args", "entry", "main", "exited" } /\ cur = "css")
          => outcome["js"] = NotRun
    /\ ( /\ pc = "exited"
         /\ mode = ""
         /\ noZip
         /\ outcome["css"] = "packaged"
         /\ outcome["js"] = "packaged" )
          => /\ Archives(fs) = Archives(fsAtStart)
             /\ \A p \in Archives(fs) : fs[p] = fsAtStart[p]
             /\ TEMP_DIR \in DOMAIN fs
             /\ fs[ASSETS_DIR \o << "global.js" >>] = File(combined)
             /\ fs[TEMP_DIR \o << YamlName >>] = File(yamlContent)
             /\ \A n \in VisibleNames :
                   fs[TEMP_DIR \o << YamlName >>].data
                       # generateYaml(slugify(n, ModeChars("css")), n, "css",
                                      MODES["css"].fileName)

\* C10 happens: both runs of a --no-zip invocation packaged, in a directory
\* that held an archive before.
C10_Witness ==
    /\ pc = "exited"
    /\ mode = ""
    /\ noZip
    /\ outcome["css"] = "packaged"
    /\ outcome["js"] = "packaged"
    /\ Archives(fsAtStart) # { }

====
